---------------------------- MODULE Spec2Model ----------------------------
(***************************************************************************)
(* The webhook delivery and retry engine of the mock marketplace server    *)
(* (src/uber_mock_server/app.py): the webhook_events table, the delivery   *)
(* chains run by send_webhook_with_retry, the manual retry endpoint and    *)
(* the background sweeper webhook_retry_scheduler, together with the       *)
(* store integration (store_integrations) that trigger_webhook consults.   *)
(*                                                                         *)
(* The server is one asyncio event loop: code between two awaits runs      *)
(* without interleaving, so one action is one such segment.  The awaits    *)
(* are the outbound POST (client.post), the backoff sleep, the sweeper's   *)
(* interval sleep, and the hand-over of a background task after a          *)
(* response has been sent.                                                 *)
(*                                                                         *)
(* Time is kept relative: every timer holds the seconds left until it is   *)
(* due and Tick lets one second pass.  A due timer wakes its coroutine     *)
(* before time advances further; a POST in flight may take any time.       *)
(***************************************************************************)
EXTENDS Integers, Sequences, FiniteSets

\* ------------------------------------------------------------ bounds
MaxEvents == 2      \* rows the webhook_events table may hold
MaxChains == 2      \* background tasks running a delivery chain at one time
MaxPosts  == 4      \* the POST counter (history) saturates here
MaxPending == 2     \* trigger_webhook tasks waiting in their delay at one time
MaxStoreEvents == 1 \* rows created in the runs that follow the store integration
MaxOrders == 2      \* rows the orders table may hold
MaxCodes == 2       \* rows the auth_codes table may hold
MaxTokens == 2      \* the count of tokens issued for one code saturates here

\* ------------------------------------------------- program constants
max_attempts  == 3
SweepInterval == 30
SweepLimit    == 10

Events    == 1..MaxEvents
EventIds  == 0..MaxEvents   \* the ids a request may name; no row ever has id 0
TaskSlots == 1..MaxChains
SweeperSlot == 0
Slots     == {SweeperSlot} \cup TaskSlots
Null      == -1

VARIABLES
    serverUp,       \* the process is running (startup has completed)
    nEvents,        \* number of rows of webhook_events; row e exists iff e <= nEvents
    status,         \* webhook_events.status, per row
    attempts,       \* webhook_events.attempts, per row
    next_retry_at,  \* webhook_events.next_retry_at, per row: Null, or seconds until due
    chains,         \* running send_webhook_with_retry coroutines, per slot;
                    \* slot 0 is the one the sweeper awaits inline
    sw,             \* the webhook_retry_scheduler coroutine
    posts,          \* history: POSTs issued per row since creation / last manual retry
    integration,    \* the row of store_integrations of the store
    trigger,        \* the trigger_webhook tasks: those in their delay, and the last one run
    rows,           \* webhook_events columns set by the INSERT only, per row
    call,           \* the arguments webhook_url, payload of the call in each slot
    retry404,       \* history: a manual retry request was answered 404
    orders,         \* orders.status, per order
    response,       \* history: the last response of an order, listing or token request
    listing,        \* history: the events of the last response of GET /webhooks/events
    auth_codes,     \* the rows of auth_codes, per code
    tokens          \* the rows of tokens written by the authorization_code grant, per code

vars == <<serverUp, nEvents, status, attempts, next_retry_at, chains, sw, posts,
          integration, trigger, rows, call, retry404,
          orders, response, listing, auth_codes, tokens>>

Exists(e) == e \in Events /\ e <= nEvents

\* retry_delay = 2 ** attempt
Backoff(attempt) == 2 ^ attempt

\* The off-by-one variant of the test below (<= for <), which lets a fourth
\* attempt happen.
CanRetryInclusive(attempt) == attempt <= max_attempts

\* if attempt < max_attempts
CanRetry(attempt) == attempt < max_attempts

NoChain == [ev |-> 0, attempt |-> 0, pc |-> "idle", timer |-> 0]
Chain(e, n, p, t) == [ev |-> e, attempt |-> n, pc |-> p, timer |-> t]

SwOff == [pc |-> "off", timer |-> 0, batch |-> <<>>, errorLogged |-> FALSE]

\* await asyncio.sleep(30) at the end of a pass of the while loop; errorLogged
\* records whether the pass went through the except clause (its print).
SwSleeping(err) ==
    [pc |-> "sleep", timer |-> SweepInterval, batch |-> <<>>, errorLogged |-> err]

\* The variant without the try/except inside the loop: the exception ends
\* the coroutine.
SwDead == [pc |-> "dead", timer |-> 0, batch |-> <<>>, errorLogged |-> TRUE]

\* except Exception as e: print(...), and then the interval sleep.
SwAfterError == SwSleeping(TRUE)

CountPost(ps, e) == [ps EXCEPT ![e] = IF @ < MaxPosts THEN @ + 1 ELSE @]

\* ---------------------------------------------------- store integration

\* The store and the webhook_url activate_integration gives it.
Store == "store"
StoreUrl == "http://localhost:8069/ubereats/webhook/store"
NoUrl == "none"

Categories ==
    {"order_release_webhooks", "schedule_order_webhooks", "delivery_status_webhooks"}

\* webhooks_config, by the entry of each category: "on" / "off" for
\* {"is_enabled": true / false}, "missing" for no entry.
DefaultConfig ==
    [k \in Categories |-> IF k = "order_release_webhooks" THEN "off" ELSE "on"]

\* The configurations a client sends.
Configs ==
    { DefaultConfig,
      [k \in Categories |-> "on"],
      [k \in Categories |-> "off"],
      [k \in Categories |-> "missing"] }

NoIntegration ==
    [present |-> FALSE, enabled |-> FALSE, webhook_url |-> NoUrl,
     webhooks_config |-> DefaultConfig]

\* A row whose webhook_url is NULL: the column is nullable and
\* trigger_webhook tests for it, but no endpoint writes such a row.
NoUrlIntegration ==
    [present |-> TRUE, enabled |-> TRUE, webhook_url |-> NoUrl,
     webhooks_config |-> DefaultConfig]

\* INSERT OR REPLACE INTO store_integrations ..., integration_enabled = True
Activated(config) ==
    [present |-> TRUE, enabled |-> TRUE, webhook_url |-> StoreUrl,
     webhooks_config |-> config]

\* The event types trigger_webhook tests, and those its callers pass.
GatedTypes == {"orders.release", "orders.scheduled.notification", "delivery.state_changed"}
EventTypes ==
    GatedTypes \cup {"store.provisioned", "store.deprovisioned", "orders.notification",
                     "orders.status_update", "orders.cancel"}

CategoryOf(event_type) ==
    CASE event_type = "orders.release" -> "order_release_webhooks"
      [] event_type = "orders.scheduled.notification" -> "schedule_order_webhooks"
      [] event_type = "delivery.state_changed" -> "delivery_status_webhooks"

\* webhooks_config.get(category, {}).get('is_enabled')
IsEnabled(config, category) == config[category] = "on"

\* The variant whose SELECT lacks AND integration_enabled = 1.
TriggerPassesDisabled(event_type) ==
    /\ integration.present
    /\ integration.webhook_url # NoUrl
    /\ event_type \in GatedTypes
          => IsEnabled(integration.webhooks_config, CategoryOf(event_type))

\* The variant without the tests of the category flags.
TriggerPassesUngated(event_type) ==
    /\ integration.present
    /\ integration.enabled
    /\ integration.webhook_url # NoUrl

\* The tests of trigger_webhook before it creates the row: a row of
\* store_integrations with integration_enabled = 1, a webhook_url, and for a
\* gated event type the flag of its category.
TriggerPasses(event_type) ==
    /\ integration.present
    /\ integration.enabled
    /\ integration.webhook_url # NoUrl
    /\ event_type \in GatedTypes
          => IsEnabled(integration.webhooks_config, CategoryOf(event_type))

\* No trigger_webhook task waits; done is the history of the last one run:
\* "created", or the event type of a call that returned at one of its tests.
NoTrigger == [pending |-> {}, done |-> "none"]

\* webhook_payload, and its text as stored in the payload column.
Payload(e, event_type) == [event_id |-> e, event_type |-> event_type]
Dumps(p) == <<"json", p>>
Loads(t) == t[2]

NoRow ==
    [event_id |-> 0, event_type |-> "none", store_id |-> "none",
     payload |-> Dumps(Payload(0, "none")), webhook_url |-> NoUrl, created_at |-> 0]

NoCall == [webhook_url |-> NoUrl, payload |-> Payload(0, "none")]

\* The variant that takes the webhook_url from the integration of the store
\* as it is now.
CallOfCurrent(e) ==
    [webhook_url |-> integration.webhook_url, payload |-> Loads(rows[e].payload)]

\* The arguments retry_webhook and the sweeper pass: the webhook_url and
\* json.loads(payload) of the row they selected.
CallOf(e) == [webhook_url |-> rows[e].webhook_url, payload |-> Loads(rows[e].payload)]

\* ------------------------------------------ orders, listing, OAuth codes

Orders == 1..MaxOrders
OrderStatuses == {"pending", "accepted", "denied", "cancelled"}

\* No request of these kinds has been answered yet.
NoResponse == [op |-> "none", arg |-> 0, code |-> 0]
Response(op, arg, code) == [op |-> op, arg |-> arg, code |-> code]

NoListing == [status |-> "none", limit |-> 0, events |-> <<>>]

Codes == 1..MaxCodes
NoCode == [issued |-> FALSE, used |-> FALSE, expired |-> FALSE]

\* What a row of tokens was granted for: an authorization code, or 0 for
\* the client_credentials grant. tokens counts the rows per grant.
Grants == 0..MaxCodes

\* The tables besides store_integrations and webhook_events as init_db
\* creates them: no order, no authorization code, no token.
InitTables ==
    /\ orders = [o \in Orders |-> "none"]
    /\ response = NoResponse
    /\ listing = NoListing
    /\ auth_codes = [k \in Codes |-> NoCode]
    /\ tokens = [g \in Grants |-> 0]

\* The database holds the integration of the store, activated with the
\* default configuration; no event has been triggered yet.
Init ==
    /\ InitTables
    /\ integration = Activated(DefaultConfig)
    /\ trigger = NoTrigger
    /\ rows = [e \in Events |-> NoRow]
    /\ call = [c \in Slots |-> NoCall]
    /\ retry404 = FALSE
    /\ serverUp = FALSE
    /\ nEvents = 0
    /\ status = [e \in Events |-> "none"]
    /\ attempts = [e \in Events |-> 0]
    /\ next_retry_at = [e \in Events |-> Null]
    /\ chains = [c \in Slots |-> NoChain]
    /\ sw = SwOff
    /\ posts = [e \in Events |-> 0]

\* ------------------------------------------------------- process life

\* startup(): init_db() only; the tables and their rows persist.  It does not
\* schedule webhook_retry_scheduler.
Startup ==
    /\ ~serverUp
    /\ serverUp' = TRUE
    /\ UNCHANGED <<nEvents, status, attempts, next_retry_at, chains, sw, posts>>
    /\ UNCHANGED <<orders, response, listing, auth_codes, tokens>>
    /\ UNCHANGED <<retry404, integration, trigger, rows, call>>

\* The process stops (shutdown or crash): every coroutine is lost, the
\* database file stays.
Shutdown ==
    /\ serverUp
    /\ serverUp' = FALSE
    /\ chains' = [c \in Slots |-> NoChain]
    /\ sw' = SwOff
    /\ call' = [c \in Slots |-> NoCall]
    /\ trigger' = [trigger EXCEPT !.pending = {}]
    /\ UNCHANGED <<orders, response, listing, auth_codes, tokens>>
    /\ UNCHANGED <<retry404, nEvents, status, attempts, next_retry_at, posts, integration, rows>>

\* A caller schedules the coroutine webhook_retry_scheduler() on the loop.
SweeperLaunch ==
    /\ serverUp
    /\ sw.pc = "off"
    /\ sw' = [sw EXCEPT !.pc = "ready"]
    /\ UNCHANGED <<serverUp, nEvents, status, attempts, next_retry_at, chains, posts>>
    /\ UNCHANGED <<orders, response, listing, auth_codes, tokens>>
    /\ UNCHANGED <<retry404, integration, trigger, rows, call>>

\* ----------------------------------------- send_webhook_with_retry

\* What follows the end of the call in slot c.  For a background task the
\* task is over.  For the sweeper (slot 0) control returns into the for loop
\* of webhook_retry_scheduler: an exception leaves the loop for the except
\* clause and the interval sleep; a normal return dispatches the next event
\* of the batch (its POST starts in the same segment) or, after the last
\* one, reaches the interval sleep.
ChainEnds(c, raised, ps) ==
    IF c # SweeperSlot
    THEN /\ chains' = [chains EXCEPT ![c] = NoChain]
         /\ call' = [call EXCEPT ![c] = NoCall]
         /\ posts' = ps
         /\ sw' = sw
    ELSE IF raised
    THEN /\ chains' = [chains EXCEPT ![c] = NoChain]
         /\ call' = [call EXCEPT ![c] = NoCall]
         /\ posts' = ps
         /\ sw' = SwAfterError
    ELSE IF sw.batch = <<>>
    THEN /\ chains' = [chains EXCEPT ![c] = NoChain]
         /\ call' = [call EXCEPT ![c] = NoCall]
         /\ posts' = ps
         /\ sw' = SwSleeping(FALSE)
    ELSE /\ chains' = [chains EXCEPT ![c] = Chain(Head(sw.batch), 1, "inflight", 0)]
         /\ call' = [call EXCEPT ![c] = CallOf(Head(sw.batch))]
         /\ posts' = CountPost(ps, Head(sw.batch))
         /\ sw' = [sw EXCEPT !.batch = Tail(@)]

\* A background task added by retry_webhook starts running: the POST of
\* attempt 1 is issued.
ChainStart(c) ==
    /\ c \in TaskSlots
    /\ chains[c].pc = "queued"
    /\ chains' = [chains EXCEPT ![c].pc = "inflight"]
    /\ posts' = CountPost(posts, chains[c].ev)
    /\ UNCHANGED <<serverUp, nEvents, status, attempts, next_retry_at, sw>>
    /\ UNCHANGED <<orders, response, listing, auth_codes, tokens>>
    /\ UNCHANGED <<retry404, integration, trigger, rows, call>>

\* response.status_code == 200: UPDATE ... SET status = 'delivered', attempts = ?
PostDelivered(c) ==
    /\ c \in Slots
    /\ chains[c].pc = "inflight"
    /\ status' = [status EXCEPT ![chains[c].ev] = "delivered"]
    /\ attempts' = [attempts EXCEPT ![chains[c].ev] = chains[c].attempt]
    /\ ChainEnds(c, FALSE, posts)
    /\ UNCHANGED <<orders, response, listing, auth_codes, tokens>>
    /\ UNCHANGED <<retry404, serverUp, nEvents, next_retry_at, integration, trigger, rows>>

\* The variant that gives up at the first failure: the row is set to failed
\* whatever the attempt.
PostFailedRetryGivesUp(c) ==
    /\ c \in Slots
    /\ chains[c].pc = "inflight"
    /\ CanRetry(chains[c].attempt)
    /\ status' = [status EXCEPT ![chains[c].ev] = "failed"]
    /\ attempts' = [attempts EXCEPT ![chains[c].ev] = chains[c].attempt]
    /\ ChainEnds(c, FALSE, posts)
    /\ UNCHANGED <<orders, response, listing, auth_codes, tokens>>
    /\ UNCHANGED <<retry404, serverUp, nEvents, next_retry_at, integration, trigger, rows>>

\* Any exception of the try block (non-200, timeout, connection error) with
\* attempt < max_attempts: the row is set to retrying and the coroutine
\* sleeps retry_delay seconds.
PostFailedRetry(c) ==
    /\ c \in Slots
    /\ chains[c].pc = "inflight"
    /\ CanRetry(chains[c].attempt)
    /\ status' = [status EXCEPT ![chains[c].ev] = "retrying"]
    /\ attempts' = [attempts EXCEPT ![chains[c].ev] = chains[c].attempt]
    /\ next_retry_at' = [next_retry_at EXCEPT ![chains[c].ev] = Backoff(chains[c].attempt)]
    /\ chains' = [chains EXCEPT ![c].pc = "sleep",
                                ![c].timer = Backoff(chains[c].attempt)]
    /\ UNCHANGED <<orders, response, listing, auth_codes, tokens>>
    /\ UNCHANGED <<retry404, serverUp, nEvents, sw, posts, integration, trigger, rows, call>>

\* The variant of the last failure that leaves the row retrying.
PostFailedFinalStaysRetrying(c) ==
    /\ c \in Slots
    /\ chains[c].pc = "inflight"
    /\ ~CanRetry(chains[c].attempt)
    /\ status' = [status EXCEPT ![chains[c].ev] = "retrying"]
    /\ attempts' = [attempts EXCEPT ![chains[c].ev] = chains[c].attempt]
    /\ ChainEnds(c, FALSE, posts)
    /\ UNCHANGED <<orders, response, listing, auth_codes, tokens>>
    /\ UNCHANGED <<retry404, serverUp, nEvents, next_retry_at, integration, trigger, rows>>

\* The same with attempt = max_attempts: the row is set to failed.
PostFailedFinal(c) ==
    /\ c \in Slots
    /\ chains[c].pc = "inflight"
    /\ ~CanRetry(chains[c].attempt)
    /\ status' = [status EXCEPT ![chains[c].ev] = "failed"]
    /\ attempts' = [attempts EXCEPT ![chains[c].ev] = chains[c].attempt]
    /\ ChainEnds(c, FALSE, posts)
    /\ UNCHANGED <<orders, response, listing, auth_codes, tokens>>
    /\ UNCHANGED <<retry404, serverUp, nEvents, next_retry_at, integration, trigger, rows>>

\* The except block itself raises (get_db / UPDATE / commit fail): nothing is
\* written and the exception leaves send_webhook_with_retry.
PostFailedRaises(c) ==
    /\ c \in Slots
    /\ chains[c].pc = "inflight"
    /\ ChainEnds(c, TRUE, posts)
    /\ UNCHANGED <<serverUp, nEvents, status, attempts, next_retry_at>>
    /\ UNCHANGED <<orders, response, listing, auth_codes, tokens>>
    /\ UNCHANGED <<retry404, integration, trigger, rows>>

\* asyncio.sleep(retry_delay) is over: the recursive call issues the POST of
\* attempt + 1.
ChainWake(c) ==
    /\ c \in Slots
    /\ chains[c].pc = "sleep"
    /\ chains[c].timer = 0
    /\ chains' = [chains EXCEPT ![c] = Chain(@.ev, @.attempt + 1, "inflight", 0)]
    /\ posts' = CountPost(posts, chains[c].ev)
    /\ UNCHANGED <<serverUp, nEvents, status, attempts, next_retry_at, sw>>
    /\ UNCHANGED <<orders, response, listing, auth_codes, tokens>>
    /\ UNCHANGED <<retry404, integration, trigger, rows, call>>

\* ------------------------------------------------------------ requests

FreeSlots == {c \in TaskSlots : chains[c].pc = "idle"}
FreeSlot == CHOOSE c \in FreeSlots : \A d \in FreeSlots : c <= d

\* created_at TIMESTAMP DEFAULT CURRENT_TIMESTAMP has a resolution of one
\* second: a new row gets the second of the row before it or a later one.
\* Seconds are numbered by the rows that opened them.
LastCreatedAt == IF nEvents = 0 THEN 0 ELSE rows[nEvents].created_at
Timestamps == {LastCreatedAt, LastCreatedAt + 1} \ {0}

\* The rest of trigger_webhook once its tests have passed: the row is
\* inserted (status pending, attempts 0, with the payload and the webhook_url
\* read from the integration) and send_webhook_with_retry is called with the
\* same payload and webhook_url: the POST of attempt 1 is issued.
CreateEvent(event_type, webhook_url) ==
    /\ FreeSlots # {}
    /\ nEvents' = nEvents + 1
    /\ status' = [status EXCEPT ![nEvents + 1] = "pending"]
    /\ attempts' = [attempts EXCEPT ![nEvents + 1] = 0]
    /\ next_retry_at' = [next_retry_at EXCEPT ![nEvents + 1] = Null]
    /\ \E created_at \in Timestamps :
          rows' = [rows EXCEPT ![nEvents + 1] =
                      [event_id |-> nEvents + 1, event_type |-> event_type,
                       store_id |-> Store,
                       payload |-> Dumps(Payload(nEvents + 1, event_type)),
                       webhook_url |-> webhook_url,
                       created_at |-> created_at]]
    /\ chains' = [chains EXCEPT ![FreeSlot] = Chain(nEvents + 1, 1, "inflight", 0)]
    /\ call' = [call EXCEPT ![FreeSlot] =
                   [webhook_url |-> webhook_url,
                    payload |-> Payload(nEvents + 1, event_type)]]
    /\ posts' = [posts EXCEPT ![nEvents + 1] = 1]
    /\ UNCHANGED <<serverUp, sw>>

\* trigger_webhook after its delay, for an event type that is not gated and
\* a store with an enabled integration and a webhook_url.
TriggerWebhook ==
    /\ serverUp
    /\ nEvents < MaxEvents
    /\ TriggerPasses("orders.notification")
    /\ CreateEvent("orders.notification", integration.webhook_url)
    /\ UNCHANGED <<orders, response, listing, auth_codes, tokens>>
    /\ UNCHANGED <<retry404, integration, trigger>>

\* The variant that adds the delivery chain without the UPDATE of the row.
RetryWebhookNoReset(e) ==
    /\ serverUp
    /\ Exists(e)
    /\ FreeSlots # {}
    /\ chains' = [chains EXCEPT ![FreeSlot] = Chain(e, 1, "queued", 0)]
    /\ call' = [call EXCEPT ![FreeSlot] = CallOf(e)]
    /\ posts' = [posts EXCEPT ![e] = 0]
    /\ UNCHANGED <<serverUp, nEvents, status, attempts, next_retry_at, sw>>
    /\ UNCHANGED <<orders, response, listing, auth_codes, tokens>>
    /\ UNCHANGED <<retry404, integration, trigger, rows>>

\* The variant that retries failed events only.
RetryWebhookOnlyFailed(e) ==
    /\ serverUp
    /\ Exists(e)
    /\ status[e] = "failed"
    /\ FreeSlots # {}
    /\ status' = [status EXCEPT ![e] = "pending"]
    /\ attempts' = [attempts EXCEPT ![e] = 0]
    /\ chains' = [chains EXCEPT ![FreeSlot] = Chain(e, 1, "queued", 0)]
    /\ call' = [call EXCEPT ![FreeSlot] = CallOf(e)]
    /\ posts' = [posts EXCEPT ![e] = 0]
    /\ UNCHANGED <<orders, response, listing, auth_codes, tokens>>
    /\ UNCHANGED <<retry404, serverUp, nEvents, next_retry_at, sw, integration, trigger, rows>>

\* POST /webhooks/retry/{event_id} for an existing row: status and attempts
\* are reset and a delivery chain is added as a background task.
RetryWebhook(e) ==
    /\ serverUp
    /\ Exists(e)
    /\ FreeSlots # {}
    /\ status' = [status EXCEPT ![e] = "pending"]
    /\ attempts' = [attempts EXCEPT ![e] = 0]
    /\ chains' = [chains EXCEPT ![FreeSlot] = Chain(e, 1, "queued", 0)]
    /\ call' = [call EXCEPT ![FreeSlot] = CallOf(e)]
    /\ posts' = [posts EXCEPT ![e] = 0]
    /\ UNCHANGED <<orders, response, listing, auth_codes, tokens>>
    /\ UNCHANGED <<retry404, serverUp, nEvents, next_retry_at, sw, integration, trigger, rows>>

\* The variant that answers 404 only after the background task was added.
RetryWebhookNotFoundLate(event_id) ==
    /\ serverUp
    /\ ~Exists(event_id)
    /\ FreeSlots # {}
    /\ retry404' = TRUE
    /\ chains' = [chains EXCEPT ![FreeSlot] = Chain(event_id, 1, "queued", 0)]
    /\ UNCHANGED <<serverUp, nEvents, status, attempts, next_retry_at, sw, posts>>
    /\ UNCHANGED <<integration, trigger, rows, call>>
    /\ UNCHANGED <<orders, response, listing, auth_codes, tokens>>

\* POST /webhooks/retry/{event_id} for an event_id that no row has: the
\* SELECT returns nothing and the request is answered 404 "Event not found".
RetryWebhookNotFound(event_id) ==
    /\ serverUp
    /\ ~Exists(event_id)
    /\ retry404' = TRUE
    /\ UNCHANGED <<serverUp, nEvents, status, attempts, next_retry_at, chains, sw, posts>>
    /\ UNCHANGED <<integration, trigger, rows, call>>
    /\ UNCHANGED <<orders, response, listing, auth_codes, tokens>>

\* ------------------------------------------------ webhook_retry_scheduler

\* The scan without its status filter, a NULL next_retry_at counting as past.
DueNoStatusFilter == {e \in Events : Exists(e) /\ next_retry_at[e] <= 0}

\* WHERE status = 'retrying' AND next_retry_at <= datetime('now')
Due == {e \in Events : Exists(e) /\ status[e] = "retrying" /\ next_retry_at[e] = 0}

\* The rows a scan may return: the due rows, at most SweepLimit of them, in
\* an order the query does not fix.
Batches ==
    {b \in UNION {[1..n -> Due] : n \in 0..MaxEvents} :
        /\ \A i, j \in 1..Len(b) : i # j => b[i] # b[j]
        /\ Len(b) = (IF Cardinality(Due) < SweepLimit THEN Cardinality(Due) ELSE SweepLimit)}

SweeperAwake == sw.pc = "ready" \/ (sw.pc = "sleep" /\ sw.timer = 0)

\* One pass of the while loop up to its first await: the scan and, when rows
\* were returned, the dispatch of the first event.
SweeperCycle ==
    /\ serverUp
    /\ SweeperAwake
    /\ \E b \in Batches :
        IF b = <<>>
        THEN /\ sw' = SwSleeping(FALSE)
             /\ UNCHANGED <<chains, call, posts>>
        ELSE /\ sw' = [sw EXCEPT !.pc = "run", !.timer = 0, !.batch = Tail(b)]
             /\ chains' = [chains EXCEPT ![SweeperSlot] = Chain(Head(b), 1, "inflight", 0)]
             /\ call' = [call EXCEPT ![SweeperSlot] = CallOf(Head(b))]
             /\ posts' = CountPost(posts, Head(b))
    /\ UNCHANGED <<serverUp, nEvents, status, attempts, next_retry_at>>
    /\ UNCHANGED <<orders, response, listing, auth_codes, tokens>>
    /\ UNCHANGED <<retry404, integration, trigger, rows>>

\* The scan raises (get_db / SELECT fail): except clause, then the interval sleep.
SweeperScanFails ==
    /\ serverUp
    /\ SweeperAwake
    /\ sw' = SwAfterError
    /\ UNCHANGED <<serverUp, nEvents, status, attempts, next_retry_at, chains, posts>>
    /\ UNCHANGED <<orders, response, listing, auth_codes, tokens>>
    /\ UNCHANGED <<retry404, integration, trigger, rows, call>>

\* ---------------------------------------------------------------- time

\* A coroutine that is due runs before time advances.
Urgent ==
    /\ serverUp
    /\ \/ SweeperAwake
       \/ \E c \in Slots : chains[c].pc = "queued"
       \/ \E c \in Slots : chains[c].pc = "sleep" /\ chains[c].timer = 0

Dec(t) == IF t > 0 THEN t - 1 ELSE t

Tick ==
    /\ ~Urgent
    /\ \/ \E e \in Events : next_retry_at[e] > 0
       \/ sw.pc = "sleep"
    /\ next_retry_at' = [e \in Events |-> Dec(next_retry_at[e])]
    /\ chains' = [c \in Slots |-> [chains[c] EXCEPT !.timer = Dec(@)]]
    /\ sw' = [sw EXCEPT !.timer = Dec(@)]
    /\ UNCHANGED <<serverUp, nEvents, status, attempts, posts>>
    /\ UNCHANGED <<orders, response, listing, auth_codes, tokens>>
    /\ UNCHANGED <<retry404, integration, trigger, rows, call>>

\* One step of a delivery chain.
ChainStep ==
    \/ \E c \in Slots : PostDelivered(c)
    \/ \E c \in Slots : PostFailedRetry(c)
    \/ \E c \in Slots : PostFailedFinal(c)
    \/ \E c \in Slots : PostFailedRaises(c)
    \/ \E c \in Slots : ChainWake(c)

\* The server as app.py runs it: nothing schedules webhook_retry_scheduler,
\* so the sweeper takes no step.
Next ==
    \/ Startup
    \/ Shutdown
    \/ TriggerWebhook
    \/ \E e \in Events : RetryWebhook(e)
    \/ \E event_id \in EventIds : RetryWebhookNotFound(event_id)
    \/ \E c \in Slots : ChainStart(c)
    \/ ChainStep
    \/ Tick

Spec == Init /\ [][Next]_vars

\* The server with webhook_retry_scheduler scheduled on its loop, and no
\* operator issuing manual retries.
NextSweeper ==
    \/ Startup
    \/ Shutdown
    \/ SweeperLaunch
    \/ TriggerWebhook
    \/ ChainStep
    \/ SweeperCycle
    \/ SweeperScanFails
    \/ Tick

SpecSweeper == Init /\ [][NextSweeper]_vars

\* Both together.
SpecAll == Init /\ [][Next \/ NextSweeper]_vars

\* ------------------------------------- the store integration and triggers

\* background_tasks.add_task(trigger_webhook, event_type, store_id, ...): the
\* task waits in its delay.
AddTrigger(event_type) ==
    /\ event_type \notin trigger.pending
    /\ Cardinality(trigger.pending) < MaxPending
    /\ trigger' = [trigger EXCEPT !.pending = @ \cup {event_type}]

\* POST /v1/eats/stores/{store_id}/pos_data: the integration row is written
\* (enabled, with the webhook_url of the store) and store.provisioned is
\* triggered.
ActivateIntegration(config) ==
    /\ serverUp
    /\ integration' = Activated(config)
    /\ AddTrigger("store.provisioned")
    /\ UNCHANGED <<serverUp, nEvents, status, attempts, next_retry_at, chains, sw, posts>>
    /\ UNCHANGED <<orders, response, listing, auth_codes, tokens>>
    /\ UNCHANGED <<retry404, rows, call>>

\* PATCH /v1/eats/stores/{store_id}/pos_data with integration_enabled and
\* webhooks_config: 404 without a row, else the row is updated.
UpdateIntegration(enabled, config) ==
    /\ serverUp
    /\ integration.present
    /\ integration' = [integration EXCEPT !.enabled = enabled, !.webhooks_config = config]
    /\ UNCHANGED <<serverUp, nEvents, status, attempts, next_retry_at, chains, sw, posts>>
    /\ UNCHANGED <<orders, response, listing, auth_codes, tokens>>
    /\ UNCHANGED <<retry404, trigger, rows, call>>

\* The variant that triggers store.deprovisioned and leaves the row in place.
RemoveIntegrationKeepsRow ==
    /\ serverUp
    /\ integration.present
    /\ integration' = integration
    /\ AddTrigger("store.deprovisioned")
    /\ UNCHANGED <<serverUp, nEvents, status, attempts, next_retry_at, chains, sw, posts>>
    /\ UNCHANGED <<orders, response, listing, auth_codes, tokens>>
    /\ UNCHANGED <<retry404, rows, call>>

\* DELETE /v1/eats/stores/{store_id}/pos_data: 404 without a row, else the
\* row is deleted and store.deprovisioned is triggered.
RemoveIntegration ==
    /\ serverUp
    /\ integration.present
    /\ integration' = NoIntegration
    /\ AddTrigger("store.deprovisioned")
    /\ UNCHANGED <<serverUp, nEvents, status, attempts, next_retry_at, chains, sw, posts>>
    /\ UNCHANGED <<orders, response, listing, auth_codes, tokens>>
    /\ UNCHANGED <<retry404, rows, call>>

\* Any other caller of trigger_webhook (the order and delivery endpoints).
RequestTrigger(event_type) ==
    /\ serverUp
    /\ event_type \in EventTypes \ {"store.provisioned", "store.deprovisioned"}
    /\ AddTrigger(event_type)
    /\ UNCHANGED <<serverUp, nEvents, status, attempts, next_retry_at, chains, sw, posts>>
    /\ UNCHANGED <<orders, response, listing, auth_codes, tokens>>
    /\ UNCHANGED <<retry404, integration, rows, call>>

\* trigger_webhook after its delay: it returns without a trace when a test
\* fails, else it creates the event and sends it.
TriggerRuns(event_type) ==
    /\ serverUp
    /\ event_type \in trigger.pending
    /\ IF TriggerPasses(event_type)
       THEN /\ nEvents < MaxStoreEvents
            /\ CreateEvent(event_type, integration.webhook_url)
            /\ trigger' = [pending |-> trigger.pending \ {event_type},
                           done |-> "created"]
       ELSE /\ trigger' = [pending |-> trigger.pending \ {event_type},
                           done |-> event_type]
            /\ UNCHANGED <<serverUp, nEvents, status, attempts, next_retry_at,
                           chains, sw, posts, rows, call>>
    /\ UNCHANGED <<orders, response, listing, auth_codes, tokens>>
    /\ UNCHANGED <<integration, retry404>>

\* The database file found at startup (init_db keeps what it holds): no
\* event, and no integration or one without webhook_url.
InitStore ==
    /\ InitTables
    /\ integration \in {NoIntegration, NoUrlIntegration}
    /\ trigger = NoTrigger
    /\ rows = [e \in Events |-> NoRow]
    /\ call = [c \in Slots |-> NoCall]
    /\ retry404 = FALSE
    /\ serverUp = FALSE
    /\ nEvents = 0
    /\ status = [e \in Events |-> "none"]
    /\ attempts = [e \in Events |-> 0]
    /\ next_retry_at = [e \in Events |-> Null]
    /\ chains = [c \in Slots |-> NoChain]
    /\ sw = SwOff
    /\ posts = [e \in Events |-> 0]

\* The server from an empty database, with its integration endpoints and
\* the callers of trigger_webhook; no manual retry, no sweeper.
NextStore ==
    \/ Startup
    \/ \E config \in Configs : ActivateIntegration(config)
    \/ \E enabled \in BOOLEAN, config \in Configs : UpdateIntegration(enabled, config)
    \/ RemoveIntegration
    \/ \E event_type \in EventTypes : RequestTrigger(event_type)
    \/ \E event_type \in EventTypes : TriggerRuns(event_type)
    \/ ChainStep
    \/ Tick

SpecStore == InitStore /\ [][NextStore]_vars

\* The server with an integrated store, every source of a POST (trigger,
\* chain, manual retry, sweeper), and an integration that is disabled,
\* enabled again or removed while events are being delivered.
NextPosts ==
    \/ Startup
    \/ \E enabled \in BOOLEAN : UpdateIntegration(enabled, integration.webhooks_config)
    \/ RemoveIntegration
    \/ RequestTrigger("orders.notification")
    \/ \E event_type \in EventTypes : TriggerRuns(event_type)
    \/ \E e \in Events : RetryWebhook(e)
    \/ \E c \in Slots : ChainStart(c)
    \/ ChainStep
    \/ SweeperLaunch
    \/ SweeperCycle
    \/ Tick

SpecPosts == Init /\ [][NextPosts]_vars

\* ------------------------------------------------------------- orders

NoOrders == {o \in Orders : orders[o] = "none"}
NewOrder == CHOOSE o \in NoOrders : \A d \in NoOrders : o <= d

\* SELECT ... FROM orders o JOIN store_integrations si ... WHERE o.order_id = ?
\* AND si.client_id = ?: the order exists and its store has an integration
\* row of the client (enabled or not).
OrderFound(o) == orders[o] # "none" /\ integration.present

\* POST /simulate/order: the order is inserted with status pending, and when
\* the store has an enabled integration with a webhook_url
\* orders.notification is triggered.
SimulateOrder ==
    /\ serverUp
    /\ NoOrders # {}
    /\ orders' = [orders EXCEPT ![NewOrder] = "pending"]
    /\ IF integration.present /\ integration.enabled /\ integration.webhook_url # NoUrl
       THEN AddTrigger("orders.notification")
       ELSE trigger' = trigger
    /\ response' = Response("simulate_order", NewOrder, 200)
    /\ UNCHANGED <<serverUp, nEvents, status, attempts, next_retry_at, chains, sw, posts>>
    /\ UNCHANGED <<retry404, integration, rows, call, listing, auth_codes, tokens>>

\* The variant of accept / deny without the test of the status.
DecideOrderAnyStatus(op, o, new_status) ==
    /\ serverUp
    /\ IF ~OrderFound(o)
       THEN /\ response' = Response(op, o, 404)
            /\ UNCHANGED <<orders, trigger>>
       ELSE /\ orders' = [orders EXCEPT ![o] = new_status]
            /\ AddTrigger("orders.status_update")
            /\ response' = Response(op, o, 200)
    /\ UNCHANGED <<serverUp, nEvents, status, attempts, next_retry_at, chains, sw, posts>>
    /\ UNCHANGED <<retry404, integration, rows, call, listing, auth_codes, tokens>>

\* The body accept_order and deny_order share, for a request with a valid
\* token of scope eats.order: 404 when the order is not found, 400 when its
\* status is not pending, else the status is written and
\* orders.status_update is triggered.
DecideOrder(op, o, new_status) ==
    /\ serverUp
    /\ IF ~OrderFound(o)
       THEN /\ response' = Response(op, o, 404)
            /\ UNCHANGED <<orders, trigger>>
       ELSE IF orders[o] # "pending"
       THEN /\ response' = Response(op, o, 400)
            /\ UNCHANGED <<orders, trigger>>
       ELSE /\ orders' = [orders EXCEPT ![o] = new_status]
            /\ AddTrigger("orders.status_update")
            /\ response' = Response(op, o, 200)
    /\ UNCHANGED <<serverUp, nEvents, status, attempts, next_retry_at, chains, sw, posts>>
    /\ UNCHANGED <<retry404, integration, rows, call, listing, auth_codes, tokens>>

\* POST /v1/eats/orders/{order_id}/accept_pos_order
AcceptOrder(o) == DecideOrder("accept_order", o, "accepted")

\* POST /v1/eats/orders/{order_id}/deny_pos_order
DenyOrder(o) == DecideOrder("deny_order", o, "denied")

\* The variant of cancel that awaits trigger_webhook before it answers.
CancelOrderAwaitsTrigger(o) ==
    /\ serverUp
    /\ OrderFound(o)
    /\ nEvents < MaxStoreEvents
    /\ TriggerPasses("orders.cancel")
    /\ orders' = [orders EXCEPT ![o] = "cancelled"]
    /\ CreateEvent("orders.cancel", integration.webhook_url)
    /\ response' = Response("cancel_order", o, 200)
    /\ UNCHANGED <<retry404, integration, trigger, listing, auth_codes, tokens>>

\* POST /v1/eats/orders/{order_id}/cancel: 404 when the order is not found,
\* else the status is set to cancelled, whatever it was, and orders.cancel
\* is triggered.
CancelOrder(o) ==
    /\ serverUp
    /\ IF ~OrderFound(o)
       THEN /\ response' = Response("cancel_order", o, 404)
            /\ UNCHANGED <<orders, trigger>>
       ELSE /\ orders' = [orders EXCEPT ![o] = "cancelled"]
            /\ AddTrigger("orders.cancel")
            /\ response' = Response("cancel_order", o, 200)
    /\ UNCHANGED <<serverUp, nEvents, status, attempts, next_retry_at, chains, sw, posts>>
    /\ UNCHANGED <<retry404, integration, rows, call, listing, auth_codes, tokens>>

\* POST /simulate/delivery_update/{order_id}: 400 for a state that is not
\* one of valid_states, 404 without the order, else delivery.state_changed
\* is triggered.
SimulateDeliveryUpdate(o, valid_state) ==
    /\ serverUp
    /\ IF ~valid_state
       THEN /\ response' = Response("simulate_delivery_update", o, 400)
            /\ trigger' = trigger
       ELSE IF orders[o] = "none"
       THEN /\ response' = Response("simulate_delivery_update", o, 404)
            /\ trigger' = trigger
       ELSE /\ AddTrigger("delivery.state_changed")
            /\ response' = Response("simulate_delivery_update", o, 200)
    /\ UNCHANGED <<serverUp, nEvents, status, attempts, next_retry_at, chains, sw, posts>>
    /\ UNCHANGED <<retry404, integration, rows, call, orders, listing, auth_codes, tokens>>

\* The server with its order endpoints, the integration endpoints and the
\* triggers they enqueue; no manual retry, no sweeper.
NextOrders ==
    \/ Startup
    \/ ActivateIntegration(DefaultConfig)
    \/ RemoveIntegration
    \/ SimulateOrder
    \/ \E o \in Orders : AcceptOrder(o)
    \/ \E o \in Orders : DenyOrder(o)
    \/ \E o \in Orders : CancelOrder(o)
    \/ \E o \in Orders, valid_state \in BOOLEAN : SimulateDeliveryUpdate(o, valid_state)
    \/ \E event_type \in EventTypes : TriggerRuns(event_type)
    \/ ChainStep
    \/ Tick

SpecOrders == Init /\ [][NextOrders]_vars

\* ------------------------------------------------------ events listing

\* The values of the query parameter status: absent, empty, or a text.
NoFilter == "null"
StatusParams == {NoFilter, "", "pending", "retrying", "delivered", "failed"}

\* The values of the query parameter limit (an int, 100 when absent).
Limits == (0 - 1)..(MaxEvents + 1)

\* if status: query += " WHERE status = ?"
Filtering(status_param) == status_param \notin {NoFilter, ""}

\* The rows the WHERE clause keeps.
Matching(status_param) ==
    {e \in Events : Exists(e) /\ (Filtering(status_param) => status[e] = status_param)}

\* ORDER BY created_at DESC: rows of one second come in an order the query
\* does not fix.
NewestFirst(q) ==
    \A i, j \in 1..Len(q) : i < j => rows[q[i]].created_at >= rows[q[j]].created_at

Orderings(S) ==
    {q \in [1..Cardinality(S) -> S] :
        /\ \A i, j \in 1..Len(q) : i # j => q[i] # q[j]
        /\ NewestFirst(q)}

\* LIMIT ?: the first limit rows; a negative value means no upper bound
\* (SQLite).
Limit(q, limit) ==
    IF limit < 0 THEN q
    ELSE IF limit < Len(q) THEN SubSeq(q, 1, limit) ELSE q

\* GET /webhooks/events?status=&limit=: the rows selected are returned, the
\* table is only read.
GetWebhookEvents(status_param, limit) ==
    /\ serverUp
    /\ \E q \in Orderings(Matching(status_param)) :
          listing' = [status |-> status_param, limit |-> limit,
                      events |-> Limit(q, limit)]
    /\ UNCHANGED <<serverUp, nEvents, status, attempts, next_retry_at, chains, sw, posts>>
    /\ UNCHANGED <<retry404, integration, trigger, rows, call>>
    /\ UNCHANGED <<orders, response, auth_codes, tokens>>

\* The columns of a row left behind by earlier runs, by its status.
AttemptsOf(st) ==
    CASE st = "pending" -> 0
      [] st = "retrying" -> 1
      [] st = "delivered" -> 1
      [] st = "failed" -> max_attempts
      [] OTHER -> 0

StoredRow(e, created_at) ==
    [event_id |-> e, event_type |-> "orders.notification", store_id |-> Store,
     payload |-> Dumps(Payload(e, "orders.notification")),
     webhook_url |-> StoreUrl, created_at |-> created_at]

\* The database file found at startup holds any number of events, each in
\* any status, created in the same or in different seconds; no coroutine
\* runs.
InitListing ==
    /\ InitTables
    /\ integration = Activated(DefaultConfig)
    /\ trigger = NoTrigger
    /\ call = [c \in Slots |-> NoCall]
    /\ retry404 = FALSE
    /\ serverUp = FALSE
    /\ chains = [c \in Slots |-> NoChain]
    /\ sw = SwOff
    /\ nEvents \in 0..MaxEvents
    /\ status \in [Events -> {"none", "pending", "retrying", "delivered", "failed"}]
    /\ \A e \in Events : (status[e] = "none") <=> ~Exists(e)
    /\ attempts = [e \in Events |-> AttemptsOf(status[e])]
    /\ posts = attempts
    /\ next_retry_at = [e \in Events |-> IF status[e] = "retrying" THEN 0 ELSE Null]
    /\ \E created \in [Events -> 1..MaxEvents] :
          /\ \A e \in Events : created[e] \in {IF e = 1 THEN 1 ELSE created[e - 1],
                                               IF e = 1 THEN 1 ELSE created[e - 1] + 1}
          /\ rows = [e \in Events |-> IF Exists(e) THEN StoredRow(e, created[e]) ELSE NoRow]

\* The server answering listing requests over such a table.
NextListing ==
    \/ Startup
    \/ \E status_param \in StatusParams, limit \in Limits :
          GetWebhookEvents(status_param, limit)

SpecListing == InitListing /\ [][NextListing]_vars

\* ------------------------------------------------------------ OAuth

\* The codes not yet generated, and the one authorize stores next.
NoCodes == {k \in Codes : ~auth_codes[k].issued}
NewCode == CHOOSE k \in NoCodes : \A j \in NoCodes : k <= j

\* GET /oauth/v2/authorize: 400 for an unknown client, else a fresh code is
\* stored, unused, expiring ten minutes later.
Authorize(client_known) ==
    /\ serverUp
    /\ IF ~client_known
       THEN /\ response' = Response("authorize", 0, 400)
            /\ auth_codes' = auth_codes
       ELSE /\ NoCodes # {}
            /\ auth_codes' = [auth_codes EXCEPT ![NewCode] =
                                 [issued |-> TRUE, used |-> FALSE, expired |-> FALSE]]
            /\ response' = Response("authorize", NewCode, 200)
    /\ UNCHANGED <<serverUp, nEvents, status, attempts, next_retry_at, chains, sw, posts>>
    /\ UNCHANGED <<retry404, integration, trigger, rows, call, orders, listing, tokens>>

\* The clock passes expires_at of code k.
CodeExpires(k) ==
    /\ auth_codes[k].issued
    /\ ~auth_codes[k].expired
    /\ auth_codes' = [auth_codes EXCEPT ![k].expired = TRUE]
    /\ UNCHANGED <<serverUp, nEvents, status, attempts, next_retry_at, chains, sw, posts>>
    /\ UNCHANGED <<retry404, integration, trigger, rows, call, orders, response, listing, tokens>>

GrantTypes == {"client_credentials", "authorization_code", "password"}
RedirectUris == {"none", "same", "other"}

\* The row the SELECT of get_token finds: the code of this client and this
\* redirect_uri, not expired, not used.
CodeRow(k, same_client, redirect_uri) ==
    /\ auth_codes[k].issued
    /\ same_client
    /\ redirect_uri = "same"
    /\ ~auth_codes[k].expired
    /\ ~auth_codes[k].used

\* An HTTPException of get_token: nothing is written.
Refuse(error, k, code) ==
    /\ response' = Response(error, k, code)
    /\ UNCHANGED <<auth_codes, tokens>>

\* The INSERT into tokens and the answer; a statement the database refuses
\* is answered 500.
InsertToken(g, k, insert_ok) ==
    IF insert_ok
    THEN /\ tokens[g] < MaxTokens
         /\ tokens' = [tokens EXCEPT ![g] = @ + 1]
         /\ response' = Response("access_token", k, 200)
    ELSE /\ tokens' = tokens
         /\ response' = Response("server_error", k, 500)

\* The variant of get_token that leaves the code unused.
GetTokenKeepsCode(grant_type, client_ok, has_scope, k, redirect_uri, same_client, insert_ok) ==
    /\ serverUp
    /\ IF ~client_ok
       THEN Refuse("invalid_client", k, 401)
       ELSE IF grant_type = "client_credentials"
       THEN IF ~has_scope
            THEN Refuse("invalid_request", k, 400)
            ELSE /\ auth_codes' = auth_codes
                 /\ InsertToken(0, k, insert_ok)
       ELSE IF grant_type = "authorization_code"
       THEN IF k = 0 \/ redirect_uri = "none"
            THEN Refuse("invalid_request", k, 400)
            ELSE IF ~CodeRow(k, same_client, redirect_uri)
            THEN Refuse("invalid_grant", k, 400)
            ELSE /\ auth_codes' = auth_codes
                 /\ InsertToken(k, k, insert_ok)
       ELSE Refuse("unsupported_grant_type", k, 400)
    /\ UNCHANGED <<serverUp, nEvents, status, attempts, next_retry_at, chains, sw, posts>>
    /\ UNCHANGED <<retry404, integration, trigger, rows, call, orders, listing>>

\* POST /oauth/v2/token with code k (0: no code given): 401 for a client
\* that does not authenticate; client_credentials needs a scope;
\* authorization_code needs code and redirect_uri (invalid_request), then
\* the row of the code (invalid_grant), marks the code used and commits;
\* any other grant_type is refused. Then the token is inserted.
GetToken(grant_type, client_ok, has_scope, k, redirect_uri, same_client, insert_ok) ==
    /\ serverUp
    /\ IF ~client_ok
       THEN Refuse("invalid_client", k, 401)
       ELSE IF grant_type = "client_credentials"
       THEN IF ~has_scope
            THEN Refuse("invalid_request", k, 400)
            ELSE /\ auth_codes' = auth_codes
                 /\ InsertToken(0, k, insert_ok)
       ELSE IF grant_type = "authorization_code"
       THEN IF k = 0 \/ redirect_uri = "none"
            THEN Refuse("invalid_request", k, 400)
            ELSE IF ~CodeRow(k, same_client, redirect_uri)
            THEN Refuse("invalid_grant", k, 400)
            ELSE /\ auth_codes' = [auth_codes EXCEPT ![k].used = TRUE]
                 /\ InsertToken(k, k, insert_ok)
       ELSE Refuse("unsupported_grant_type", k, 400)
    /\ UNCHANGED <<serverUp, nEvents, status, attempts, next_retry_at, chains, sw, posts>>
    /\ UNCHANGED <<retry404, integration, trigger, rows, call, orders, listing>>

\* The server answering authorization and token requests.
NextOAuth ==
    \/ Startup
    \/ \E client_known \in BOOLEAN : Authorize(client_known)
    \/ \E k \in Codes : CodeExpires(k)
    \/ \E grant_type \in GrantTypes, client_ok, has_scope \in BOOLEAN, k \in Grants,
          redirect_uri \in RedirectUris, same_client, insert_ok \in BOOLEAN :
          GetToken(grant_type, client_ok, has_scope, k, redirect_uri, same_client, insert_ok)

SpecOAuth == Init /\ [][NextOAuth]_vars

\* The outcome of the POST in flight in slot c, recorded.
PostOutcome(c) == PostDelivered(c) \/ PostFailedRetry(c) \/ PostFailedFinal(c)

\* The server that never stops, with or without the sweeper on its loop, no
\* manual retry and a database that takes every statement.
NextLive ==
    \/ Startup
    \/ SweeperLaunch
    \/ TriggerWebhook
    \/ \E c \in Slots : PostOutcome(c)
    \/ \E c \in Slots : ChainWake(c)
    \/ SweeperCycle
    \/ Tick

\* Every POST gets its outcome (httpx timeout 10 s), every coroutine that is
\* due runs, and time passes.
Fairness ==
    /\ WF_vars(Startup)
    /\ \A c \in Slots : WF_vars(PostOutcome(c))
    /\ \A c \in Slots : WF_vars(ChainWake(c))
    /\ WF_vars(SweeperCycle)
    /\ WF_vars(Tick)

SpecLive == Init /\ [][NextLive]_vars /\ Fairness

\* The same server when the process may also stop and be started again.
NextRestart ==
    \/ Startup
    \/ Shutdown
    \/ SweeperLaunch
    \/ TriggerWebhook
    \/ \E c \in Slots : PostOutcome(c)
    \/ \E c \in Slots : ChainWake(c)
    \/ SweeperCycle
    \/ Tick

\* As before, and webhook_retry_scheduler is scheduled after every start.
FairnessRestart ==
    /\ Fairness
    /\ WF_vars(SweeperLaunch)

SpecRestart == Init /\ [][NextRestart]_vars /\ FairnessRestart

\* ------------------------------------------------------------- claims

Terminal == {"delivered", "failed"}
ChainsOf(e) == {c \in Slots : chains[c].pc # "idle" /\ chains[c].ev = e}
InFlight(e) == {c \in Slots : chains[c].pc = "inflight" /\ chains[c].ev = e}

\* The step of retry_webhook on row e, seen from the row: it is the only
\* write of status 'pending' to an existing row.
ManualReset(e) == Exists(e) /\ status'[e] = "pending" /\ attempts'[e] = 0

\* C1: a row in a terminal status (delivered, failed) stores as attempts the
\* number of POSTs issued for it since its creation or last manual retry.
C1_TerminalAttemptsArePosts ==
    \A e \in Events :
        (Exists(e) /\ status[e] \in Terminal) => attempts[e] = posts[e]

\* C2: an event never has more than one POST in flight.
C2_OnePostInFlight ==
    \A e \in Events : Cardinality(InFlight(e)) <= 1

\* C3: once a row is delivered or failed, only the manual retry request
\* changes its status or its attempts.
C3_TerminalStaysUntilManualRetry ==
    [][\A e \in Events :
          (Exists(e) /\ status[e] \in Terminal)
              => \/ status'[e] = status[e] /\ attempts'[e] = attempts[e]
                 \/ ManualReset(e)]_vars

\* C4: between creation (or the last manual retry) and the next manual
\* retry at most 3 POSTs are issued for an event.
C4_AtMostThreePosts ==
    \A e \in Events : posts[e] <= max_attempts

\* C5: the stored attempts of every row is an integer from 0 to 3.
C5_AttemptsInRange ==
    \A e \in Events : attempts[e] \in 0..max_attempts

C5_Witness ==
    \E e \in Events : Exists(e) /\ status[e] = "failed" /\ attempts[e] = max_attempts

\* C6: the stored attempts of a row never decreases, except in the step of a
\* manual retry, which sets it to 0; any other change raises it by one.
C6_AttemptsOnlyGrowByOne ==
    [][\A e \in Events :
          \/ attempts'[e] = attempts[e]
          \/ attempts'[e] = attempts[e] + 1
          \/ ManualReset(e)]_vars

\* C7: next_retry_at of a row is non-null exactly when its status is retrying.
C7_NextRetryIffRetrying ==
    \A e \in Events :
        Exists(e) => ((next_retry_at[e] # Null) <=> (status[e] = "retrying"))

\* C8: once the server has started the sweeper is running, so that a row
\* left retrying with a past next_retry_at and no delivery chain of its own
\* is picked up by a sweep cycle.
C8_DueEventHasSweeper ==
    \A e \in Events :
        (serverUp /\ e \in Due /\ ChainsOf(e) = {}) => sw.pc # "off"

\* C9: within one sweep cycle an error raised while one selected event is
\* dispatched does not keep the rest of the selected batch from being
\* dispatched in that cycle: while the process lives, the cycle goes on
\* until the batch is used up.
C9_BatchSurvivesError ==
    [][(sw.pc = "run" /\ sw.batch # <<>> /\ serverUp')
          => /\ sw'.pc = "run"
             /\ sw'.batch \in {sw.batch, Tail(sw.batch)}]_vars

\* C10: an error raised by the scan or by a dispatch never ends the
\* sweeper's loop: while the process lives the sweeper keeps running; the
\* step that logs an error puts it into its sleep of a full interval, and
\* when that sleep is over the next pass can start.
C10_LoopSurvivesErrors ==
    [][/\ (sw.pc # "off" /\ serverUp')
            => /\ sw'.pc \in {"ready", "run", "sleep"}
               /\ (sw'.errorLogged /\ sw'.timer > sw.timer)
                      => (sw'.pc = "sleep" /\ sw'.timer = SweepInterval)
       /\ (serverUp /\ sw.pc = "sleep" /\ sw.timer = 0)
            => ENABLED SweeperCycle]_vars

\* A further cycle is running after a pass that logged an error.
C10_Witness ==
    sw.pc = "run" /\ sw.errorLogged

\* The step in which the sweeper dispatches an event: the call of
\* send_webhook_with_retry in its for loop, which issues the POST of attempt 1
\* in slot 0.
SweeperDispatches ==
    /\ chains'[SweeperSlot] # chains[SweeperSlot]
    /\ chains'[SweeperSlot].pc = "inflight"
    /\ chains'[SweeperSlot].attempt = 1

\* C11: a sweep cycle dispatches only events whose status is retrying (never
\* a pending, delivered or failed one), and at most 10 events per cycle.
C11_DispatchOnlyRetrying ==
    [][SweeperDispatches
          => /\ status[chains'[SweeperSlot].ev] = "retrying"
             /\ Len(sw'.batch) < SweepLimit]_vars

\* C12: when the first POST of a newly triggered event is answered with 200
\* (and the answer is recorded), the row becomes delivered with attempts = 1
\* and its chain is over; from then on the row stays delivered with
\* attempts = 1 and no further POST is issued for it.
C12_First200Delivers ==
    [][\A e \in Events :
          /\ (\E c \in TaskSlots :
                  /\ chains[c] = Chain(e, 1, "inflight", 0)
                  /\ posts[e] = 1
                  /\ chains'[c] = NoChain
                  /\ status'[e] = "delivered")
                => (attempts'[e] = 1 /\ posts'[e] = 1 /\ ChainsOf(e)' = {})
          /\ (status[e] = "delivered" /\ posts[e] = 1)
                => /\ status'[e] = "delivered"
                   /\ attempts'[e] = 1
                   /\ posts'[e] = 1
                   /\ ChainsOf(e)' = {}]_vars

\* An event delivered at its first POST, seen after a sweep scan has passed
\* over it.
C12_Witness ==
    \E e \in Events :
        /\ status[e] = "delivered" /\ attempts[e] = 1 /\ posts[e] = 1
        /\ sw.pc = "sleep" /\ sw.timer < SweepInterval

\* The changes of a row <<status, attempts>> when every attempt fails.
FailingSequence ==
    { <<"pending", 0, "retrying", 1>>,
      <<"retrying", 1, "retrying", 2>>,
      <<"retrying", 2, "failed", max_attempts>> }

\* C13: as long as no POST of an event succeeds, its row only goes
\* pending -> retrying (attempts 1) -> retrying (attempts 2) -> failed
\* (attempts 3), and exactly three POSTs have been issued when it becomes
\* failed (a manual retry starts the sequence and the count afresh).
C13_ThreeFailuresThenFailed ==
    [][\A e \in Events :
          (/\ Exists(e)
           /\ status[e] # "delivered" /\ status'[e] # "delivered"
           /\ <<status[e], attempts[e]>> # <<status'[e], attempts'[e]>>
           /\ ~ManualReset(e))
              => /\ <<status[e], attempts[e], status'[e], attempts'[e]>>
                        \in FailingSequence
                 /\ status'[e] = "failed" => posts'[e] = max_attempts]_vars

\* A POST for row e is issued in this step.
PostIssued(e) ==
    \E c \in Slots :
        /\ chains'[c] # chains[c]
        /\ chains'[c].pc = "inflight"
        /\ chains'[c].ev = e

\* The failure of attempt n of row e is recorded in this step.
FailureRecorded(e, n) ==
    \E c \in Slots :
        /\ chains[c] = Chain(e, n, "inflight", 0)
        /\ chains'[c].pc = "sleep"

\* C14: the step that records the failure of attempt n (1 or 2) stores
\* next_retry_at = failure time + 2^n seconds, and no POST is issued for the
\* event before that time (2 s after attempt 1, 4 s after attempt 2).
C14_BackoffBeforeNextPost ==
    [][\A e \in Events :
          /\ \A n \in 1..(max_attempts - 1) :
                FailureRecorded(e, n) => next_retry_at'[e] = 2 ^ n
          /\ (status[e] = "retrying" /\ PostIssued(e)) => next_retry_at[e] = 0]_vars

\* The step in which the trigger_webhook task of this event type runs.
TriggerRan(event_type) ==
    /\ event_type \in trigger.pending
    /\ event_type \notin trigger'.pending
    /\ serverUp'

\* What a trigger that creates nothing leaves alone: the rows of
\* webhook_events, the running calls and the POSTs issued.
NothingCreated ==
    UNCHANGED <<nEvents, rows, status, attempts, next_retry_at, chains, call, posts>>

\* C15: a trigger of orders.release, orders.scheduled.notification or
\* delivery.state_changed for a store whose flag of the corresponding
\* category is {"is_enabled": false} creates no row and issues no POST.
C15_DisabledCategoryCreatesNothing ==
    [][\A event_type \in GatedTypes :
          (/\ TriggerRan(event_type)
           /\ integration.webhooks_config[CategoryOf(event_type)] = "off")
              => NothingCreated]_vars

\* Such a trigger has run for a store whose integration is enabled.
C15_Witness ==
    /\ trigger.done \in GatedTypes
    /\ integration.present /\ integration.enabled
    /\ integration.webhooks_config[CategoryOf(trigger.done)] = "off"

\* C16: a trigger for a store that has no integration, a disabled
\* integration or an integration without webhook_url is a silent no-op: it
\* returns, no row is created and no POST is issued.
C16_NoIntegrationNoOp ==
    [][\A event_type \in EventTypes :
          (/\ TriggerRan(event_type)
           /\ \/ ~integration.present
              \/ ~integration.enabled
              \/ integration.webhook_url = NoUrl)
              => (NothingCreated /\ trigger'.done = event_type)]_vars

\* A trigger of an event type that no flag gates has returned at the test of
\* the integration, and no event exists.
C16_Witness ==
    /\ trigger.done \in EventTypes \ GatedTypes
    /\ nEvents = 0

\* The step of retry_webhook on row e, seen from the tasks: a delivery chain
\* for e is added to the background tasks.
RetryRequested(e) ==
    \E c \in TaskSlots : chains[c] = NoChain /\ chains'[c].ev = e /\ chains'[c].pc = "queued"

\* C17: a manual retry of a failed event sets status pending and attempts 0
\* and adds a fresh delivery chain (attempt 1, no POST issued yet); when the
\* first POST of that chain is answered 200 the row becomes delivered with
\* attempts = 1, and with no other chain left it stays so until the next
\* manual retry.
C17_RetryOfFailedDelivers ==
    [][\A e \in Events :
          /\ (status[e] = "failed" /\ RetryRequested(e))
                => /\ status'[e] = "pending" /\ attempts'[e] = 0
                   /\ posts'[e] = 0
                   /\ \E c \in TaskSlots : /\ chains[c] = NoChain
                                            /\ chains'[c] = Chain(e, 1, "queued", 0)
          /\ (\E c \in TaskSlots :
                  /\ chains[c] = Chain(e, 1, "inflight", 0)
                  /\ chains'[c] = NoChain
                  /\ status[e] = "pending" /\ status'[e] = "delivered")
                => attempts'[e] = 1
          /\ (status[e] = "delivered" /\ attempts[e] = 1 /\ ChainsOf(e) = {})
                => \/ status'[e] = "delivered" /\ attempts'[e] = 1
                   \/ RetryRequested(e)]_vars

\* An event with failed attempts behind it (next_retry_at was written) that
\* a manual retry restarted (one POST since) is delivered with attempts = 1.
C17_Witness ==
    \E e \in Events :
        /\ status[e] = "delivered" /\ attempts[e] = 1 /\ posts[e] = 1
        /\ next_retry_at[e] # Null
        /\ ChainsOf(e) = {}

\* C18: a manual retry request for an event_id that no row has is answered
\* with the not-found error, changes no row and dispatches no delivery
\* attempt.
C18_UnknownIdRetryChangesNothing ==
    [][(~retry404 /\ retry404') => NothingCreated]_vars

\* Such a request was answered while a failed event was in the table.
C18_Witness ==
    /\ retry404
    /\ \E e \in Events : Exists(e) /\ status[e] = "failed"

\* C19: event_id, event_type, store_id, payload and webhook_url of a row never
\* change once the row is created, and every POST issued for the event (by
\* the trigger, a chain retry, the sweeper or a manual retry) carries the
\* stored payload to the stored webhook_url, whatever has become of the
\* integration of the store.
C19_RowFixedAndPostsCarryIt ==
    [][\A e \in Events :
          Exists(e)
            => /\ rows'[e] = rows[e]
               /\ rows[e].event_id = e
               /\ \A c \in Slots :
                     (/\ chains'[c] # chains[c]
                      /\ chains'[c].pc = "inflight"
                      /\ chains'[c].ev = e)
                        => /\ call'[c].webhook_url = rows[e].webhook_url
                           /\ call'[c].payload = Loads(rows[e].payload)
                           /\ call'[c].webhook_url = StoreUrl]_vars

\* The sweeper has a POST in flight to the stored webhook_url of an event
\* whose store has no integration any more.
C19_Witness ==
    /\ chains[SweeperSlot].pc = "inflight"
    /\ ~integration.present
    /\ call[SweeperSlot].webhook_url = StoreUrl

ProcessStays == <>[][serverUp => serverUp']_vars

\* C21: once the restarts are over, every event that a restart left pending
\* or retrying (its delivery chain lost) is attempted again and reaches
\* delivered or failed, with no manual retry.
C21_RestartRecovers ==
    ProcessStays => \A e \in Events : [](Exists(e) => <>(status[e] \in Terminal))

\* C22: while the delivery sequence of one event sleeps in its backoff, no
\* other event that is due waits for it: an event selected in the same sweep
\* batch is not held back behind the sleep, and a new trigger can start its
\* first attempt.
C22_BackoffBlocksNoOtherEvent ==
    /\ chains[SweeperSlot].pc = "sleep" => sw.batch = <<>>
    /\ (/\ \E c \in Slots : chains[c].pc = "sleep"
        /\ serverUp /\ nEvents < MaxEvents /\ FreeSlots # {}
        /\ TriggerPasses("orders.notification"))
          => ENABLED TriggerWebhook

\* The step of an endpoint that enqueues trigger_webhook for this event type.
TriggerEnqueued(event_type) ==
    /\ event_type \notin trigger.pending
    /\ event_type \in trigger'.pending

\* The step creates an event row or issues a POST or records an outcome.
DeliveryStep ==
    nEvents' # nEvents \/ posts' # posts \/ status' # status \/ attempts' # attempts

\* C23: the step in which an endpoint (activate / remove integration,
\* accept / deny / cancel order, simulate order, simulate delivery update)
\* enqueues a trigger and answers creates no event row and issues no POST:
\* the trigger runs in a later step, and no step of the delivery (insert,
\* POST, recorded outcome) touches the response already given.
C23_EndpointsOnlyEnqueue ==
    [][/\ \A event_type \in EventTypes :
              TriggerEnqueued(event_type)
                  => (NothingCreated /\ trigger'.done = trigger.done)
       /\ DeliveryStep => response' = response]_vars

\* A cancel request has been answered 200 and its orders.cancel trigger
\* still waits in its delay: no event row exists yet.
C23_Witness ==
    /\ response = Response("cancel_order", 1, 200)
    /\ "orders.cancel" \in trigger.pending
    /\ nEvents = 0

\* C24: the events of a listing are exactly the stored events whose status
\* equals the filter (all events without a filter), cut to at most limit
\* entries (none for a limit below 1), the newest by created_at first and
\* kept first; the request changes no row.
C24_ListingFilteredNewestFirst ==
    [][listing' # listing =>
          LET q == listing'.events
              M == {e \in Events :
                      /\ Exists(e)
                      /\ listing'.status \notin {NoFilter, ""} => status[e] = listing'.status}
          IN  /\ \A i \in 1..Len(q) : q[i] \in M
              /\ \A i, j \in 1..Len(q) : i # j => q[i] # q[j]
              /\ Len(q) <= (IF listing'.limit < 0 THEN 0 ELSE listing'.limit)
              /\ Len(q) < listing'.limit => Len(q) = Cardinality(M)
              /\ \A i, j \in 1..Len(q) :
                    i < j => rows[q[i]].created_at >= rows[q[j]].created_at
              /\ \A i \in 1..Len(q) : \A e \in M :
                    (\A j \in 1..Len(q) : q[j] # e)
                        => rows[e].created_at <= rows[q[i]].created_at
              /\ UNCHANGED <<nEvents, status, attempts, next_retry_at, rows>>]_vars

\* The step inserts exactly one row, with status pending and attempts 0.
OneRowCreated ==
    /\ nEvents' = nEvents + 1
    /\ status'[nEvents'] = "pending"
    /\ attempts'[nEvents'] = 0
    /\ \A e \in Events : Exists(e) => (status'[e] = status[e] /\ rows'[e] = rows[e])

\* C25: for a store with an enabled integration and a webhook_url, a trigger
\* creates exactly one row (pending, attempts 0) unless the flag of the
\* category of its event type is {"is_enabled": false}: so for every event
\* type that no flag gates and for a gated type whose category has no entry
\* in webhooks_config.
C25_NoOpOnlyWhenDisabled ==
    [][\A event_type \in EventTypes :
          (/\ TriggerRan(event_type)
           /\ integration.present /\ integration.enabled
           /\ integration.webhook_url # NoUrl
           /\ event_type \in GatedTypes
                 => integration.webhooks_config[CategoryOf(event_type)] # "off")
              => OneRowCreated]_vars

\* C26: a row becomes delivered only in the step that records the 200
\* answer to a POST issued for that event, and becomes failed only in the
\* step that records that the third attempt of a delivery sequence for that
\* event got no 200; a failed row always stores attempts = 3.
C26_TerminalOnlyByOutcome ==
    [][\A e \in Events :
          /\ (status'[e] = "delivered" /\ status[e] # "delivered")
                => \E c \in Slots : /\ chains[c].ev = e
                                    /\ chains[c].pc = "inflight"
                                    /\ PostDelivered(c)
          /\ (status'[e] = "failed" /\ status[e] # "failed")
                => \E c \in Slots : /\ chains[c].ev = e
                                    /\ chains[c].pc = "inflight"
                                    /\ chains[c].attempt = max_attempts
                                    /\ PostFailedFinal(c)
          /\ status'[e] = "failed" => attempts'[e] = max_attempts]_vars

\* One event has been delivered and another has failed after a manual retry
\* (its POST counter was reset).
C26_Witness ==
    \E e, f \in Events :
        /\ status[e] = "delivered"
        /\ status[f] = "failed" /\ attempts[f] = max_attempts
        /\ posts[f] < max_attempts

\* C27: the manual retry is accepted for an existing event in any status
\* (pending, retrying, delivered, failed) and with any delivery sequence of
\* it still running: it sets status pending and attempts 0 and adds a new
\* sequence (attempt 1) beside the running ones, which it leaves alone.
C27_RetryIgnoresStatus ==
    [][\A e \in Events :
          /\ (serverUp /\ Exists(e) /\ FreeSlots # {}) => ENABLED RetryWebhook(e)
          /\ RetryRequested(e)
                => /\ status'[e] = "pending" /\ attempts'[e] = 0
                   /\ \A c \in ChainsOf(e) : chains'[c] = chains[c]
                   /\ Cardinality(ChainsOf(e)') = Cardinality(ChainsOf(e)) + 1]_vars

\* A manual retry has reset an event whose delivery sequence is still
\* running: the row is pending with attempts 0, the POST of the older
\* sequence and that of the new one are both in flight.
C27_Witness ==
    \E e \in Events :
        /\ status[e] = "pending" /\ attempts[e] = 0
        /\ Cardinality(InFlight(e)) = 2
        /\ \E c \in InFlight(e) : chains[c].attempt > 1

C29_DecidedOnlyWhenPending ==
    [][\A o \in Orders :
         /\ (AcceptOrder(o) \/ DenyOrder(o)) =>
              /\ response'.code = 200 => orders[o] = "pending"
              /\ (OrderFound(o) /\ orders[o] # "pending") =>
                   /\ response'.code = 400
                   /\ orders' = orders
                   /\ trigger' = trigger
         /\ orders[o] = "accepted" => orders'[o] \in {"accepted", "cancelled"}
         /\ orders[o] = "denied" => orders'[o] \in {"denied", "cancelled"}
         /\ orders[o] = "cancelled" => orders'[o] = "cancelled"]_vars

\* A deny of an accepted order was answered 400 and the order is still
\* accepted, while another order stands cancelled.
C29_Witness ==
    \E o, p \in Orders :
        /\ response = Response("deny_order", o, 400)
        /\ orders[o] = "accepted"
        /\ orders[p] = "cancelled"


\* An authorization_code request of an authenticated client that names code
\* k and a redirect_uri.
Exchange(k) ==
    \E has_scope, same_client, insert_ok \in BOOLEAN, redirect_uri \in {"same", "other"} :
        GetToken("authorization_code", TRUE, has_scope, k, redirect_uri, same_client, insert_ok)

\* C30: an authorization code yields at most one access token: a step that
\* stores a token for the code marks the code used, a used code stays used,
\* and every later exchange of a used code is answered 400 invalid_grant and
\* stores no token, so no code ever has more than one token.
C30_CodeYieldsOneToken ==
    [][\A k \in Codes :
         /\ tokens'[k] <= 1
         /\ tokens'[k] > tokens[k] => (~auth_codes[k].used /\ auth_codes'[k].used)
         /\ auth_codes[k].used =>
              /\ auth_codes'[k].used
              /\ tokens'[k] = tokens[k]
              /\ Exchange(k) => response' = Response("invalid_grant", k, 400)]_vars

\* A code that gave its token has been presented again before it expired,
\* and the request was refused with invalid_grant.
C30_Witness ==
    \E k \in Codes :
        /\ auth_codes[k].used
        /\ ~auth_codes[k].expired
        /\ tokens[k] = 1
        /\ response = Response("invalid_grant", k, 400)

=============================================================================
